---- MODULE Spec2Model ----
(***************************************************************************)
(* Model of chromadb/api/client.py: the process-wide registry              *)
(* SharedSystemClient._identifer_to_system, the construction of Client and *)
(* AdminClient on top of it, clear_system_cache(), and the forwarding of   *)
(* tenant/database-scoped calls to the cached ServerAPI.                   *)
(*                                                                         *)
(* Every statement of the constructors is one step function on the         *)
(* program state (StepAt).  Spec, SpecCalls and SpecForward take the       *)
(* operations one after the other and run a constructor to completion in   *)
(* one action (Run); SpecConc interleaves the same step functions of       *)
(* several threads; SpecFault lets one call into the backend raise.        *)
(***************************************************************************)
EXTENDS Integers, Sequences, FiniteSets, TLC

\* ------------------------------------------------------------------ bounds
MaxProxies == 2
MaxClears == 1

Proxies == 1..MaxProxies

\* --------------------------------------------------------------- constants
\* The value of a key that is absent from a dict, and of an unset local.
NoSystem == 0

DEFAULT_TENANT == "default_tenant"
DEFAULT_DATABASE == "default_database"

Tenants == {"default", "t1"}
Databases == {"default", "d1"}

\* ----------------------------------------------------------------- settings
\* chromadb.config.Settings, reduced to the fields client.py reads plus one
\* other option (allow_reset) that takes part in Settings equality only.
EphemeralSettings ==
  [chroma_api_impl |-> "chromadb.api.segment.SegmentAPI", is_persistent |-> FALSE,
   persist_directory |-> "./chroma", chroma_server_host |-> "None",
   chroma_server_http_port |-> 0, allow_reset |-> FALSE]

SettingsSet ==
  { EphemeralSettings,
    [EphemeralSettings EXCEPT !.allow_reset = TRUE],
    [EphemeralSettings EXCEPT !.is_persistent = TRUE, !.persist_directory = "/tmp/x"],
    [EphemeralSettings EXCEPT !.chroma_api_impl = "chromadb.api.fastapi.FastAPI",
                              !.chroma_server_host = "h",
                              !.chroma_server_http_port = 8000],
    [EphemeralSettings EXCEPT !.chroma_api_impl = "None"],
    [EphemeralSettings EXCEPT !.chroma_api_impl = "chromadb.api.local.LocalAPI"] }

\* ------------------------------------------------------------------- errors
NoError == [type |-> "", msg |-> ""]
ValueError(msg) == [type |-> "ValueError", msg |-> msg]
KeyError == [type |-> "KeyError", msg |-> "identifier"]
\* An exception raised by System, Telemetry or ServerAPI code.
BackendError == [type |-> "Exception", msg |-> "raised by the backend"]

\* _get_identifier_from_settings that leaves the port out of the identifier
\* of a remote backend.
_get_identifier_from_settings_HostOnly(settings) ==
  LET api_impl == settings.chroma_api_impl IN
  IF api_impl = "None"
  THEN [identifier |-> "",
        error |-> ValueError("Chroma API implementation must be set in settings")]
  ELSE IF api_impl = "chromadb.api.segment.SegmentAPI"
  THEN IF settings.is_persistent
       THEN [identifier |-> settings.persist_directory, error |-> NoError]
       ELSE [identifier |-> "ephemeral", error |-> NoError]
  ELSE IF api_impl = "chromadb.api.fastapi.FastAPI"
  THEN [identifier |-> settings.chroma_server_host, error |-> NoError]
  ELSE [identifier |-> "",
        error |-> ValueError("Unsupported Chroma API implementation " \o api_impl)]

\* --------------------------------------------------- identifier resolution
\* Lines 61-82: the identifier, or the ValueError raised instead.
_get_identifier_from_settings(settings) ==
  LET api_impl == settings.chroma_api_impl IN
  IF api_impl = "None"
  THEN [identifier |-> "",
        error |-> ValueError("Chroma API implementation must be set in settings")]
  ELSE IF api_impl = "chromadb.api.segment.SegmentAPI"
  THEN IF settings.is_persistent
       THEN [identifier |-> settings.persist_directory, error |-> NoError]
       ELSE [identifier |-> "ephemeral", error |-> NoError]
  ELSE IF api_impl = "chromadb.api.fastapi.FastAPI"
  THEN [identifier |-> settings.chroma_server_host \o ":"
                          \o ToString(settings.chroma_server_http_port),
        error |-> NoError]
  ELSE [identifier |-> "",
        error |-> ValueError("Unsupported Chroma API implementation " \o api_impl)]

\* The keys the registry can hold for the settings above.
Identifiers ==
  { _get_identifier_from_settings(s).identifier :
      s \in { t \in SettingsSet : _get_identifier_from_settings(t).error = NoError } }

\* -------------------------------------------------------------------- state
VARIABLES
  registry,   \* SharedSystemClient._identifer_to_system: identifier -> System
  systems,    \* the System objects built so far; the index is the identity
  proxies,    \* the Client / AdminClient objects and their constructor frames
  clears,     \* number of clear_system_cache() calls so far
  dispatched  \* the call a ServerAPI received last

vars == <<registry, systems, proxies, clears, dispatched>>

\* The part of the state the constructors read and write.
St == [registry |-> registry, systems |-> systems, proxies |-> proxies]

Apply(st) ==
  /\ registry' = st.registry
  /\ systems' = st.systems
  /\ proxies' = st.proxies

\* A slot for an object that has not been constructed yet.
Unborn ==
  [pc |-> "unborn", kind |-> "", settings |-> EphemeralSettings,
   tenantArg |-> DEFAULT_TENANT, databaseArg |-> DEFAULT_DATABASE,
   _identifier |-> "",
   new_system |-> NoSystem, previous_system |-> NoSystem, ret |-> NoSystem,
   tenant |-> DEFAULT_TENANT, database |-> DEFAULT_DATABASE,
   _server |-> NoSystem, telemetry_client |-> NoSystem,
   error |-> NoError, epoch |-> 0]

\* System(settings): no component instantiated, not started.
System(settings) ==
  [settings |-> settings, telemetry |-> FALSE, server |-> FALSE,
   starts |-> 0, stops |-> 0, captured |-> 0]

\* An argument the client does not pass to the ServerAPI.
NotPassed == "<not passed>"

\* No call has reached a ServerAPI yet.
NoCall ==
  [op |-> "", proxy |-> 0, server |-> NoSystem,
   tenant |-> NotPassed, database |-> NotPassed, embedding_function |-> NotPassed,
   given |-> NotPassed,
   tenantArg |-> "", databaseArg |-> "", epoch |-> 0]

EmptyRegistry == [id \in Identifiers |-> NoSystem]

Init ==
  /\ registry = EmptyRegistry
  /\ systems = <<>>
  /\ proxies = [p \in Proxies |-> Unborn]
  /\ clears = 0
  /\ dispatched = NoCall

\* ------------------------------------------------- steps of the constructors
\* Each step is a function of the program state st and of the object p under
\* construction; raises says whether the backend code the step calls raises.

Raise(st, p, err) ==
  [st EXCEPT !.proxies[p].pc = "failed", !.proxies[p].error = err]

Goto(st, p, label) == [st EXCEPT !.proxies[p].pc = label]

\* Client(tenant, database, settings) / AdminClient(settings) is called: the
\* frame of __init__ with its arguments.
Call(st, p, kind, tenant, database, settings, epoch) ==
  [st EXCEPT !.proxies[p] =
     [Unborn EXCEPT !.pc = "L35", !.kind = kind, !.settings = settings,
                    !.tenantArg = tenant, !.databaseArg = database,
                    !.epoch = epoch]]

\* L35 that falls back to the ephemeral identifier where the resolver raises.
L35_FallsBackToEphemeral(st, p) ==
  LET r == _get_identifier_from_settings(st.proxies[p].settings) IN
  [st EXCEPT !.proxies[p]._identifier =
                IF r.error # NoError THEN "ephemeral" ELSE r.identifier,
             !.proxies[p].pc = "L42"]

\* Line 35: self._identifier = _get_identifier_from_settings(settings)
L35(st, p) ==
  LET r == _get_identifier_from_settings(st.proxies[p].settings) IN
  IF r.error # NoError
  THEN Raise(st, p, r.error)
  ELSE [st EXCEPT !.proxies[p]._identifier = r.identifier,
                  !.proxies[p].pc = "L42"]

\* L42 with the membership test lost: every caller builds.
L42_AlwaysCreates(st, p) == Goto(st, p, "L43")

\* Line 42: if identifier not in cls._identifer_to_system
L42(st, p) ==
  IF st.registry[st.proxies[p]._identifier] = NoSystem
  THEN Goto(st, p, "L43")
  ELSE Goto(st, p, "L51")

\* Line 43: new_system = System(settings)
L43(st, p, raises) ==
  IF raises
  THEN Raise(st, p, BackendError)
  ELSE [st EXCEPT !.systems = Append(@, System(st.proxies[p].settings)),
                  !.proxies[p].new_system = Len(st.systems) + 1,
                  !.proxies[p].pc = "L44"]

\* Line 44: cls._identifer_to_system[identifier] = new_system
L44(st, p) ==
  [st EXCEPT !.registry[st.proxies[p]._identifier] = st.proxies[p].new_system,
             !.proxies[p].pc = "L46"]

\* Line 46: new_system.instance(Telemetry)
L46(st, p, raises) ==
  IF raises
  THEN Raise(st, p, BackendError)
  ELSE [st EXCEPT !.systems[st.proxies[p].new_system].telemetry = TRUE,
                  !.proxies[p].pc = "L47"]

\* Line 47: new_system.instance(ServerAPI)
L47(st, p, raises) ==
  IF raises
  THEN Raise(st, p, BackendError)
  ELSE [st EXCEPT !.systems[st.proxies[p].new_system].server = TRUE,
                  !.proxies[p].pc = "L49"]

\* Line 49: new_system.start()
L49(st, p, raises) ==
  IF raises
  THEN Raise(st, p, BackendError)
  ELSE [st EXCEPT !.systems[st.proxies[p].new_system].starts = @ + 1,
                  !.proxies[p].pc = "L59"]

\* Line 51: previous_system = cls._identifer_to_system[identifier]
L51(st, p) ==
  LET found == st.registry[st.proxies[p]._identifier] IN
  IF found = NoSystem
  THEN Raise(st, p, KeyError)
  ELSE [st EXCEPT !.proxies[p].previous_system = found,
                  !.proxies[p].pc = "L54"]

\* L54 with the comparison lost: any settings are accepted.
L54_NoCompare(st, p) == Goto(st, p, "L59")

\* Lines 54-57: if previous_system.settings != settings: raise ValueError
L54(st, p) ==
  IF st.systems[st.proxies[p].previous_system].settings # st.proxies[p].settings
  THEN Raise(st, p, ValueError("An instance of Chroma already exists with different settings"))
  ELSE Goto(st, p, "L59")

\* Line 59: return cls._identifer_to_system[identifier]; back in
\* SharedSystemClient.__init__ the value is dropped and the subclass
\* constructor goes on.
L59(st, p) ==
  LET found == st.registry[st.proxies[p]._identifier] IN
  IF found = NoSystem
  THEN Raise(st, p, KeyError)
  ELSE [st EXCEPT !.proxies[p].ret = found,
                  !.proxies[p].pc = IF st.proxies[p].kind = "Client"
                                    THEN "L118" ELSE "L374"]

\* Lines 118-119: self.tenant = tenant; self.database = database
L118(st, p) ==
  [st EXCEPT !.proxies[p].tenant = st.proxies[p].tenantArg,
             !.proxies[p].database = st.proxies[p].databaseArg,
             !.proxies[p].pc = "L122"]

\* Lines 88-90: the _system property, NoSystem when the lookup raises KeyError.
_system(st, p) == st.registry[st.proxies[p]._identifier]

\* self._server = self._system.instance(ServerAPI), at line 122 and line 374
GetServer(st, p, raises, next) ==
  LET sys == _system(st, p) IN
  IF sys = NoSystem
  THEN Raise(st, p, KeyError)
  ELSE IF raises
  THEN Raise(st, p, BackendError)
  ELSE [st EXCEPT !.systems[sys].server = TRUE,
                  !.proxies[p]._server = sys,
                  !.proxies[p].pc = next]

\* Line 122 (Client)
L122(st, p, raises) == GetServer(st, p, raises, "L125")

\* L374 that goes on to the telemetry lines of Client.__init__.
L374_ThenTelemetry(st, p, raises) == GetServer(st, p, raises, "L125")

\* Line 374 (AdminClient)
L374(st, p, raises) == GetServer(st, p, raises, "live")

\* Line 125: telemetry_client = self._system.instance(Telemetry)
L125(st, p, raises) ==
  LET sys == _system(st, p) IN
  IF sys = NoSystem
  THEN Raise(st, p, KeyError)
  ELSE IF raises
  THEN Raise(st, p, BackendError)
  ELSE [st EXCEPT !.systems[sys].telemetry = TRUE,
                  !.proxies[p].telemetry_client = sys,
                  !.proxies[p].pc = "L126"]

\* Line 126: telemetry_client.capture(ClientStartEvent()); no try/except
\* surrounds it, so an exception of capture leaves __init__.
L126(st, p, raises) ==
  IF raises
  THEN Raise(st, p, BackendError)
  ELSE [st EXCEPT !.systems[st.proxies[p].telemetry_client].captured = @ + 1,
                  !.proxies[p].pc = "live"]

\* The statements that call into System, Telemetry or ServerAPI code.
BackendCalls == {"L43", "L46", "L47", "L49", "L122", "L374", "L125", "L126"}

Finished == {"live", "failed"}

\* The statement p's constructor is at.
StepAt(st, p, raises) ==
  LET pc == st.proxies[p].pc IN
  CASE pc = "L35" -> L35(st, p)
    [] pc = "L42" -> L42(st, p)
    [] pc = "L43" -> L43(st, p, raises)
    [] pc = "L44" -> L44(st, p)
    [] pc = "L46" -> L46(st, p, raises)
    [] pc = "L47" -> L47(st, p, raises)
    [] pc = "L49" -> L49(st, p, raises)
    [] pc = "L51" -> L51(st, p)
    [] pc = "L54" -> L54(st, p)
    [] pc = "L59" -> L59(st, p)
    [] pc = "L118" -> L118(st, p)
    [] pc = "L122" -> L122(st, p, raises)
    [] pc = "L125" -> L125(st, p, raises)
    [] pc = "L126" -> L126(st, p, raises)
    [] pc = "L374" -> L374(st, p, raises)
    [] OTHER -> st

\* The constructor run to its end without another caller in between; the
\* backend call at statement faultAt raises ("none": no call raises).
RECURSIVE Run(_, _, _)
Run(st, p, faultAt) ==
  IF st.proxies[p].pc \in Finished
  THEN st
  ELSE Run(StepAt(st, p, st.proxies[p].pc = faultAt), p, faultAt)

\* -------------------------------------------------------------- operations
\* Objects are constructed in the order of their slots.
NextSlot(p) ==
  /\ proxies[p].pc = "unborn"
  /\ \A q \in Proxies : q < p => proxies[q].pc # "unborn"

Live(p) == proxies[p].pc = "live"

IsClient(p) == proxies[p].kind = "Client"
IsAdminClient(p) == proxies[p].kind = "AdminClient"

\* Lines 111-126: Client(tenant, database, settings), run to its end.
Client__init__(p, tenant, database, settings) ==
  /\ NextSlot(p)
  /\ Apply(Run(Call(St, p, "Client", tenant, database, settings, clears), p, "none"))
  /\ UNCHANGED <<clears, dispatched>>

\* Lines 372-374: AdminClient(settings), run to its end.
AdminClient__init__(p, settings) ==
  /\ NextSlot(p)
  /\ Apply(Run(Call(St, p, "AdminClient", DEFAULT_TENANT, DEFAULT_DATABASE,
                    settings, clears), p, "none"))
  /\ UNCHANGED <<clears, dispatched>>

\* clear_system_cache that leaves the mapping as it is.
clear_system_cache_KeepsMapping ==
  /\ clears < MaxClears
  /\ clears' = clears + 1
  /\ UNCHANGED <<registry, systems, proxies, dispatched>>

\* Lines 84-86: SharedSystemClient._identifer_to_system = {}
clear_system_cache ==
  /\ clears < MaxClears
  /\ registry' = EmptyRegistry
  /\ clears' = clears + 1
  /\ UNCHANGED <<systems, proxies, dispatched>>

\* set_tenant that assigns the other field.
set_tenant_SetsDatabase(p, tenant) ==
  /\ Live(p) /\ IsClient(p)
  /\ proxies' = [proxies EXCEPT ![p].database = tenant, ![p].tenantArg = tenant]
  /\ UNCHANGED <<registry, systems, clears, dispatched>>

\* Lines 362-364: self.tenant = tenant
set_tenant(p, tenant) ==
  /\ Live(p) /\ IsClient(p)
  /\ proxies' = [proxies EXCEPT ![p].tenant = tenant, ![p].tenantArg = tenant]
  /\ UNCHANGED <<registry, systems, clears, dispatched>>

\* set_database that assigns the class attribute Client.database, which every
\* client that has not been set reads.
set_database_OnClass(p, database) ==
  /\ Live(p) /\ IsClient(p)
  /\ proxies' = [q \in Proxies |->
                   IF Live(q) /\ IsClient(q)
                   THEN [proxies[q] EXCEPT !.database = database,
                                           !.databaseArg =
                                              IF q = p THEN database ELSE @]
                   ELSE proxies[q]]
  /\ UNCHANGED <<registry, systems, clears, dispatched>>

\* Lines 358-360: self.database = database
set_database(p, database) ==
  /\ Live(p) /\ IsClient(p)
  /\ proxies' = [proxies EXCEPT ![p].database = database,
                                ![p].databaseArg = database]
  /\ UNCHANGED <<registry, systems, clears, dispatched>>

\* Forward through the _system property instead of the cached self._server.
Forward_ViaSystem(p, op, tenant, database, embedding_function, given) ==
  /\ Live(p)
  /\ _system(St, p) # NoSystem
  /\ dispatched' =
       [op |-> op, proxy |-> p, server |-> _system(St, p),
        tenant |-> tenant, database |-> database,
        embedding_function |-> embedding_function, given |-> given,
        tenantArg |-> proxies[p].tenantArg,
        databaseArg |-> proxies[p].databaseArg, epoch |-> clears]
  /\ UNCHANGED <<registry, systems, proxies, clears>>

\* return self._server.<op>(...): the call as the ServerAPI of self._server
\* receives it, with the arguments last given for tenant and database and the
\* number of clears at that moment.
Forward(p, op, tenant, database, embedding_function, given) ==
  /\ Live(p)
  /\ dispatched' =
       [op |-> op, proxy |-> p, server |-> proxies[p]._server,
        tenant |-> tenant, database |-> database,
        embedding_function |-> embedding_function, given |-> given,
        tenantArg |-> proxies[p].tenantArg,
        databaseArg |-> proxies[p].databaseArg, epoch |-> clears]
  /\ UNCHANGED <<registry, systems, proxies, clears>>

\* Lines 132-134
heartbeat(p) ==
  IsClient(p) /\ Forward(p, "heartbeat", NotPassed, NotPassed, NotPassed, NotPassed)

\* list_collections that passes the class-level defaults of lines 105-106.
list_collections_DefaultPair(p) ==
  /\ IsClient(p)
  /\ Forward(p, "list_collections", DEFAULT_TENANT, DEFAULT_DATABASE, NotPassed, NotPassed)

\* Lines 136-138
list_collections(p) ==
  /\ IsClient(p)
  /\ Forward(p, "list_collections", proxies[p].tenant, proxies[p].database, NotPassed, NotPassed)

\* The caller leaves embedding_function out.
Omitted == "<omitted>"
EmbeddingFunctionArgs == {Omitted, "custom_ef"}

\* chromadb.utils.embedding_functions.DefaultEmbeddingFunction(), called once
\* by the def at the given line when the class body runs: the shared default
\* embedding function of the process, the same object at every call site.
DefaultEmbeddingFunction(line) == "DefaultEmbeddingFunction"

\* Lines 140-155
create_collection(p, embedding_function) ==
  /\ IsClient(p)
  /\ Forward(p, "create_collection", proxies[p].tenant, proxies[p].database,
             IF embedding_function = Omitted
             THEN DefaultEmbeddingFunction(145) ELSE embedding_function,
             embedding_function)

\* get_collection that does not pass the caller's embedding function on.
get_collection_AlwaysDefault(p, embedding_function) ==
  /\ IsClient(p)
  /\ Forward(p, "get_collection", proxies[p].tenant, proxies[p].database,
             DefaultEmbeddingFunction(161), embedding_function)

\* Lines 157-168
get_collection(p, embedding_function) ==
  /\ IsClient(p)
  /\ Forward(p, "get_collection", proxies[p].tenant, proxies[p].database,
             IF embedding_function = Omitted
             THEN DefaultEmbeddingFunction(161) ELSE embedding_function,
             embedding_function)

\* Lines 170-183
get_or_create_collection(p, embedding_function) ==
  /\ IsClient(p)
  /\ Forward(p, "get_or_create_collection", proxies[p].tenant, proxies[p].database,
             IF embedding_function = Omitted
             THEN DefaultEmbeddingFunction(175) ELSE embedding_function,
             embedding_function)

\* Lines 185-196
_modify(p) == IsClient(p) /\ Forward(p, "_modify", NotPassed, NotPassed, NotPassed, NotPassed)

\* Lines 198-207
delete_collection(p) ==
  /\ IsClient(p)
  /\ Forward(p, "delete_collection", proxies[p].tenant, proxies[p].database, NotPassed, NotPassed)

\* Lines 213-228
_add(p) == IsClient(p) /\ Forward(p, "_add", NotPassed, NotPassed, NotPassed, NotPassed)

\* Lines 230-245
_update(p) == IsClient(p) /\ Forward(p, "_update", NotPassed, NotPassed, NotPassed, NotPassed)

\* Lines 247-262
_upsert(p) == IsClient(p) /\ Forward(p, "_upsert", NotPassed, NotPassed, NotPassed, NotPassed)

\* Lines 264-268
_count(p) == IsClient(p) /\ Forward(p, "_count", NotPassed, NotPassed, NotPassed, NotPassed)

\* Lines 270-275
_peek(p) == IsClient(p) /\ Forward(p, "_peek", NotPassed, NotPassed, NotPassed, NotPassed)

\* Lines 277-302
_get(p) == IsClient(p) /\ Forward(p, "_get", NotPassed, NotPassed, NotPassed, NotPassed)

\* Lines 304-316
_delete(p) == IsClient(p) /\ Forward(p, "_delete", NotPassed, NotPassed, NotPassed, NotPassed)

\* Lines 318-335
_query(p) == IsClient(p) /\ Forward(p, "_query", NotPassed, NotPassed, NotPassed, NotPassed)

\* Lines 337-339
reset(p) == IsClient(p) /\ Forward(p, "reset", NotPassed, NotPassed, NotPassed, NotPassed)

\* Lines 341-343
get_version(p) ==
  IsClient(p) /\ Forward(p, "get_version", NotPassed, NotPassed, NotPassed, NotPassed)

\* Lines 345-347
get_settings(p) ==
  IsClient(p) /\ Forward(p, "get_settings", NotPassed, NotPassed, NotPassed, NotPassed)

\* Lines 349-352
max_batch_size(p) ==
  IsClient(p) /\ Forward(p, "max_batch_size", NotPassed, NotPassed, NotPassed, NotPassed)

\* Lines 376-378: AdminClient.create_database(name, tenant)
create_database(p, tenant) ==
  IsAdminClient(p) /\ Forward(p, "create_database", tenant, NotPassed, NotPassed, NotPassed)

\* ------------------------------------------------ sequential specification
\* Constructions with any settings and clears of the registry, one after the
\* other; tenant and database keep the defaults of lines 113-114.
Next ==
  \/ \E p \in Proxies, s \in SettingsSet : Client__init__(p, "default", "default", s)
  \/ \E p \in Proxies, s \in SettingsSet : AdminClient__init__(p, s)
  \/ clear_system_cache

Spec == Init /\ [][Next]_vars

\* ------------------------------------ specification of tenant and database
\* Clients of one backend, constructed with any tenant and database, their
\* set_tenant / set_database and the calls that pass tenant and database on.
NextCalls ==
  \/ \E p \in Proxies, t \in Tenants, d \in Databases :
       Client__init__(p, t, d, EphemeralSettings)
  \/ \E p \in Proxies, t \in Tenants : set_tenant(p, t)
  \/ \E p \in Proxies, d \in Databases : set_database(p, d)
  \/ \E p \in Proxies : list_collections(p)
  \/ \E p \in Proxies, e \in EmbeddingFunctionArgs : create_collection(p, e)
  \/ \E p \in Proxies, e \in EmbeddingFunctionArgs : get_collection(p, e)
  \/ \E p \in Proxies, e \in EmbeddingFunctionArgs : get_or_create_collection(p, e)
  \/ \E p \in Proxies : delete_collection(p)

SpecCalls == Init /\ [][NextCalls]_vars

\* ------------------------------------------- specification of the forwarding
\* Clients and admin clients of one identifier, clears of the registry, and
\* every forwarding method; tenant and database keep the defaults of lines
\* 113-114.
ForwardSettings == { s \in SettingsSet :
                       _get_identifier_from_settings(s).identifier = "ephemeral"
                       /\ _get_identifier_from_settings(s).error = NoError }

NextForward ==
  \/ \E p \in Proxies, s \in ForwardSettings : Client__init__(p, "default", "default", s)
  \/ \E p \in Proxies, s \in ForwardSettings : AdminClient__init__(p, s)
  \/ clear_system_cache
  \/ \E p \in Proxies : heartbeat(p)
  \/ \E p \in Proxies : list_collections(p)
  \/ \E p \in Proxies, e \in EmbeddingFunctionArgs : create_collection(p, e)
  \/ \E p \in Proxies, e \in EmbeddingFunctionArgs : get_collection(p, e)
  \/ \E p \in Proxies, e \in EmbeddingFunctionArgs : get_or_create_collection(p, e)
  \/ \E p \in Proxies : _modify(p)
  \/ \E p \in Proxies : delete_collection(p)
  \/ \E p \in Proxies : _add(p)
  \/ \E p \in Proxies : _update(p)
  \/ \E p \in Proxies : _upsert(p)
  \/ \E p \in Proxies : _count(p)
  \/ \E p \in Proxies : _peek(p)
  \/ \E p \in Proxies : _get(p)
  \/ \E p \in Proxies : _delete(p)
  \/ \E p \in Proxies : _query(p)
  \/ \E p \in Proxies : reset(p)
  \/ \E p \in Proxies : get_version(p)
  \/ \E p \in Proxies : get_settings(p)
  \/ \E p \in Proxies : max_batch_size(p)
  \/ \E p \in Proxies, t \in Tenants \cup {DEFAULT_TENANT} : create_database(p, t)

SpecForward == Init /\ [][NextForward]_vars

\* ------------------------------------ specification of the data-plane calls
\* Clients of one backend with any tenant and database, set_tenant /
\* set_database, and every call on collections and on their items.
NextData ==
  \/ \E p \in Proxies, t \in Tenants, d \in Databases :
       Client__init__(p, t, d, EphemeralSettings)
  \/ \E p \in Proxies, t \in Tenants : set_tenant(p, t)
  \/ \E p \in Proxies, d \in Databases : set_database(p, d)
  \/ \E p \in Proxies : list_collections(p)
  \/ \E p \in Proxies, e \in EmbeddingFunctionArgs : create_collection(p, e)
  \/ \E p \in Proxies, e \in EmbeddingFunctionArgs : get_collection(p, e)
  \/ \E p \in Proxies, e \in EmbeddingFunctionArgs : get_or_create_collection(p, e)
  \/ \E p \in Proxies : _modify(p)
  \/ \E p \in Proxies : delete_collection(p)
  \/ \E p \in Proxies : _add(p)
  \/ \E p \in Proxies : _update(p)
  \/ \E p \in Proxies : _upsert(p)
  \/ \E p \in Proxies : _count(p)
  \/ \E p \in Proxies : _peek(p)
  \/ \E p \in Proxies : _get(p)
  \/ \E p \in Proxies : _delete(p)
  \/ \E p \in Proxies : _query(p)

SpecData == Init /\ [][NextData]_vars

\* ------------------------------------------------ concurrent specification
\* Several threads construct clients at once on an empty registry; a thread
\* can be preempted between any two statements.

\* The settings the concurrent callers use: one identifier, two values.
ConcSettings == { s \in SettingsSet :
                    _get_identifier_from_settings(s).identifier = "ephemeral"
                    /\ _get_identifier_from_settings(s).error = NoError }

\* The statements that touch only the frame of the thread, or an object no
\* other thread can reach yet: a thread runs them without giving way, since
\* no other thread can tell the difference.
LocalLabels == {"L35", "L43", "L54", "L118"}

RECURSIVE RunLocal(_, _)
RunLocal(st, p) ==
  IF st.proxies[p].pc \in LocalLabels
  THEN RunLocal(StepAt(st, p, FALSE), p)
  ELSE st

\* A thread enters Client(settings).
Client__call__(p, settings) ==
  /\ NextSlot(p)
  /\ Apply(RunLocal(Call(St, p, "Client", "default", "default", settings, clears), p))
  /\ UNCHANGED <<clears, dispatched>>

\* A thread enters AdminClient(settings).
AdminClient__call__(p, settings) ==
  /\ NextSlot(p)
  /\ Apply(RunLocal(Call(St, p, "AdminClient", DEFAULT_TENANT, DEFAULT_DATABASE,
                         settings, clears), p))
  /\ UNCHANGED <<clears, dispatched>>

\* The thread constructing p executes the statement at label.
At(p, label) ==
  /\ proxies[p].pc = label
  /\ Apply(RunLocal(StepAt(St, p, FALSE), p))
  /\ UNCHANGED <<clears, dispatched>>

Step_L42(p) == At(p, "L42")
Step_L44(p) == At(p, "L44")
Step_L46(p) == At(p, "L46")
Step_L47(p) == At(p, "L47")
Step_L49(p) == At(p, "L49")
Step_L51(p) == At(p, "L51")
Step_L59(p) == At(p, "L59")
Step_L122(p) == At(p, "L122")
Step_L125(p) == At(p, "L125")
Step_L126(p) == At(p, "L126")
Step_L374(p) == At(p, "L374")

NextConc ==
  \/ \E p \in Proxies, s \in ConcSettings : Client__call__(p, s)
  \/ \E p \in Proxies, s \in ConcSettings : AdminClient__call__(p, s)
  \/ \E p \in Proxies : Step_L42(p)
  \/ \E p \in Proxies : Step_L44(p)
  \/ \E p \in Proxies : Step_L46(p)
  \/ \E p \in Proxies : Step_L47(p)
  \/ \E p \in Proxies : Step_L49(p)
  \/ \E p \in Proxies : Step_L51(p)
  \/ \E p \in Proxies : Step_L59(p)
  \/ \E p \in Proxies : Step_L122(p)
  \/ \E p \in Proxies : Step_L125(p)
  \/ \E p \in Proxies : Step_L126(p)
  \/ \E p \in Proxies : Step_L374(p)

SpecConc == Init /\ [][NextConc]_vars

\* ------------------------------- specification of clears racing constructions
\* Threads construct clients with the default settings while another thread
\* clears the registry; a thread can be preempted between any two statements.
NextClearRace ==
  \/ \E p \in Proxies : Client__call__(p, EphemeralSettings)
  \/ \E p \in Proxies : AdminClient__call__(p, EphemeralSettings)
  \/ clear_system_cache
  \/ \E p \in Proxies : Step_L42(p)
  \/ \E p \in Proxies : Step_L44(p)
  \/ \E p \in Proxies : Step_L46(p)
  \/ \E p \in Proxies : Step_L47(p)
  \/ \E p \in Proxies : Step_L49(p)
  \/ \E p \in Proxies : Step_L51(p)
  \/ \E p \in Proxies : Step_L59(p)
  \/ \E p \in Proxies : Step_L122(p)
  \/ \E p \in Proxies : Step_L125(p)
  \/ \E p \in Proxies : Step_L126(p)
  \/ \E p \in Proxies : Step_L374(p)

SpecClearRace == Init /\ [][NextClearRace]_vars

\* ------------------------------------------- specification with backend faults
\* Sequential constructions in which one call into System, Telemetry or
\* ServerAPI code may raise.
Client__init__raising(p, settings, faultAt) ==
  /\ NextSlot(p)
  /\ Apply(Run(Call(St, p, "Client", "default", "default", settings, clears),
               p, faultAt))
  /\ UNCHANGED <<clears, dispatched>>

AdminClient__init__raising(p, settings, faultAt) ==
  /\ NextSlot(p)
  /\ Apply(Run(Call(St, p, "AdminClient", DEFAULT_TENANT, DEFAULT_DATABASE,
                    settings, clears), p, faultAt))
  /\ UNCHANGED <<clears, dispatched>>

NextFault ==
  \/ \E p \in Proxies, s \in SettingsSet, f \in BackendCalls \cup {"none"} :
       Client__init__raising(p, s, f)
  \/ \E p \in Proxies, s \in SettingsSet, f \in BackendCalls \cup {"none"} :
       AdminClient__init__raising(p, s, f)
  \/ clear_system_cache

SpecFault == Init /\ [][NextFault]_vars

\* ================================================================== claims

\* A constructor was entered and has returned or raised in this step.
Constructed(p) == proxies[p].pc = "unborn" /\ proxies'[p].pc \in Finished

\* The identifier the settings resolve to ("" when resolution raises).
IdentifierOf(settings) == _get_identifier_from_settings(settings).identifier

SettingsConflict ==
  ValueError("An instance of Chroma already exists with different settings")

\* C1: of two completed constructions with equal settings and no
\* clear_system_cache() between them, the later one gets the very System the
\* earlier one got and the very same ServerAPI, builds no System of its own,
\* and that System has been started exactly once.
C1_EqualSettingsShareOneSystem ==
  \A p, q \in Proxies :
    ( /\ p < q /\ Live(p) /\ proxies[q].pc \in Finished
      /\ proxies[p].settings = proxies[q].settings
      /\ proxies[p].epoch = proxies[q].epoch )
    => /\ Live(q)
       /\ proxies[q].ret = proxies[p].ret
       /\ proxies[q]._server = proxies[p]._server
       /\ proxies[q].new_system = NoSystem
       /\ systems[proxies[p].ret].starts = 1

C1_Witness ==
  \E p, q \in Proxies :
    /\ p < q /\ Live(p) /\ Live(q)
    /\ proxies[p].settings = proxies[q].settings
    /\ proxies[p].epoch = proxies[q].epoch
    /\ proxies[p].kind = "Client" /\ proxies[q].kind = "AdminClient"
    /\ proxies[p].new_system # NoSystem

\* C2: a construction whose settings resolve to an identifier present in the
\* registry and differ from the settings of the System stored there raises
\* the settings-conflict ValueError, and leaves the registry and the set of
\* System objects (hence what is constructed and started) unchanged.
C2_ConflictFailsAndKeepsRegistry ==
  [][ \A p \in Proxies :
        LET id == IdentifierOf(proxies'[p].settings) IN
          ( /\ Constructed(p)
            /\ id \in Identifiers
            /\ registry[id] # NoSystem
            /\ systems[registry[id]].settings # proxies'[p].settings )
          => /\ proxies'[p].pc = "failed"
             /\ proxies'[p].error = SettingsConflict
             /\ registry' = registry
             /\ systems' = systems ]_vars

C2_Witness ==
  \E p \in Proxies :
    /\ proxies[p].pc = "failed"
    /\ proxies[p].error = SettingsConflict
    /\ registry[proxies[p]._identifier] # NoSystem
    /\ systems[registry[proxies[p]._identifier]].settings # proxies[p].settings

\* C3: when N >= 2 threads construct concurrently with identical settings on
\* an identifier not yet in the registry and all have returned, exactly one
\* System has been constructed, it has been started exactly once, and every
\* one of the N objects holds that instance.
C3_ConcurrentEqualSettingsBuildOnce ==
  ( /\ \A p \in Proxies : Live(p)
    /\ \A p, q \in Proxies : proxies[p].settings = proxies[q].settings )
  => /\ Len(systems) = 1
     /\ systems[1].starts = 1
     /\ \A p \in Proxies : proxies[p].ret = 1 /\ proxies[p]._server = 1

\* C4: two threads that construct concurrently with settings of the same
\* identifier but different values never both succeed.
C4_ConcurrentConflictOneWinner ==
  \A p, q \in Proxies :
    ( /\ p # q
      /\ proxies[p].pc \in Finished /\ proxies[q].pc \in Finished
      /\ proxies[p]._identifier = proxies[q]._identifier
      /\ proxies[p].settings # proxies[q].settings )
    => ~ (Live(p) /\ Live(q))

\* C5 as stated: for each identifier, the instance held by the registry and
\* the instances whose ServerAPI live clients hold are one and the same.
C5_OneInstancePerIdentifierEver ==
  \A p, q \in Proxies :
    ( Live(p) /\ Live(q) /\ proxies[p]._identifier = proxies[q]._identifier )
    => /\ proxies[p]._server = proxies[q]._server
       /\ registry[proxies[p]._identifier] \in {NoSystem, proxies[p]._server}

\* C5 as amended: for each identifier, the registry and all live clients
\* constructed since the most recent clear_system_cache() hold one and the
\* same instance; a client constructed before that clear may still hold the
\* instance the clear evicted.
C5_OneInstancePerIdentifierSinceClear ==
  \A p, q \in Proxies :
    ( /\ Live(p) /\ Live(q)
      /\ proxies[p]._identifier = proxies[q]._identifier
      /\ proxies[p].epoch = clears /\ proxies[q].epoch = clears )
    => /\ proxies[p]._server = proxies[q]._server
       /\ registry[proxies[p]._identifier] = proxies[p]._server

C5_Witness ==
  \E p, q \in Proxies :
    /\ Live(p) /\ Live(q)
    /\ proxies[p]._identifier = proxies[q]._identifier
    /\ proxies[p].epoch < clears /\ proxies[q].epoch = clears
    /\ proxies[p]._server # proxies[q]._server
    /\ registry[proxies[q]._identifier] = proxies[q]._server

\* A live object was constructed for identifier id before the latest clear.
UsedBeforeClear(id) ==
  \E q \in Proxies :
    Live(q) /\ proxies[q]._identifier = id /\ proxies[q].epoch < clears

\* An object was constructed for identifier id since the latest clear.
UsedSinceClear(id) ==
  \E q \in Proxies :
    /\ proxies[q].pc \in Finished /\ proxies[q].epoch = clears
    /\ IdentifierOf(proxies[q].settings) = id

\* C6: the first construction after clear_system_cache() for an identifier
\* used before the clear succeeds whatever its settings, builds a System and
\* starts it once, and that System is none of the Systems that existed before
\* the construction, in particular none whose ServerAPI a client holds.
C6_FreshSystemAfterClear ==
  [][ \A p \in Proxies :
        LET id == IdentifierOf(proxies'[p].settings) IN
          ( /\ Constructed(p)
            /\ id \in Identifiers
            /\ UsedBeforeClear(id)
            /\ ~ UsedSinceClear(id) )
          => /\ proxies'[p].pc = "live"
             /\ Len(systems') = Len(systems) + 1
             /\ proxies'[p].ret = Len(systems')
             /\ proxies'[p]._server = proxies'[p].ret
             /\ registry'[id] = proxies'[p].ret
             /\ systems'[proxies'[p].ret].starts = 1
             /\ \A q \in Proxies :
                  Live(q) => proxies[q]._server # proxies'[p].ret ]_vars

C6_Witness ==
  \E p, q \in Proxies :
    /\ Live(p) /\ Live(q)
    /\ proxies[p]._identifier = proxies[q]._identifier
    /\ proxies[q].epoch < proxies[p].epoch
    /\ proxies[p].settings # proxies[q].settings
    /\ proxies[p].new_system # NoSystem
    /\ systems[proxies[p].new_system].starts = 1

\* C7: clear_system_cache() replaces the mapping by an empty one and touches
\* nothing else, no System is ever stopped, and every call a client forwards,
\* also after a clear and after later constructions, reaches the ServerAPI of
\* the System the client obtained at its own construction, which is started.
C7_ClearOnlyEmptiesTheMapping ==
  [][ /\ clears' # clears
        => registry' = EmptyRegistry /\ systems' = systems /\ proxies' = proxies
      /\ \A i \in 1..Len(systems') : systems'[i].stops = 0
      /\ dispatched' # NoCall
        => /\ dispatched'.server = proxies'[dispatched'.proxy].ret
           /\ systems'[dispatched'.server].server
           /\ systems'[dispatched'.server].starts = 1 ]_vars

\* A call forwarded after a clear and after a later construction for the same
\* identifier, by a client built before the clear.
C7_Witness ==
  /\ dispatched # NoCall
  /\ dispatched.epoch > proxies[dispatched.proxy].epoch
  /\ registry[proxies[dispatched.proxy]._identifier]
       \notin {NoSystem, dispatched.server}

\* C8: the _system property of every successfully constructed Client or
\* AdminClient yields a System, also after the registry has been cleared.
C8_SystemAlwaysDereferences ==
  \A p \in Proxies : Live(p) => _system(St, p) # NoSystem

\* C9: a Client construction that got through identifier resolution and the
\* registry get-or-create and reached the capture of the client-start event
\* never fails.
C9_TelemetryFailureIsContained ==
  \A p \in Proxies :
    ( /\ proxies[p].kind = "Client"
      /\ proxies[p].ret # NoSystem
      /\ proxies[p].telemetry_client # NoSystem )
    => proxies[p].pc # "failed"

\* The operations that pass tenant and database on to the ServerAPI.
ScopedOps ==
  {"list_collections", "create_collection", "get_collection",
   "get_or_create_collection", "delete_collection"}

\* C10: a forwarded tenant/database-scoped call carries the tenant and the
\* database given last before it was issued, by set_tenant / set_database or,
\* failing that, by the constructor; and a step that changes a client (a later
\* set) leaves the call already received by the ServerAPI as it is.
C10_CallCarriesLatestPair ==
  [][ /\ dispatched'.op \in ScopedOps
        => /\ dispatched'.tenant = dispatched'.tenantArg
           /\ dispatched'.database = dispatched'.databaseArg
      /\ (dispatched # NoCall /\ proxies' # proxies)
        => dispatched' = dispatched ]_vars

\* A scoped call was forwarded, and both fields of its client were set to
\* other values afterwards.
C10_Witness ==
  /\ dispatched.op \in ScopedOps
  /\ dispatched.tenant = dispatched.tenantArg
  /\ dispatched.database = dispatched.databaseArg
  /\ proxies[dispatched.proxy].tenant # dispatched.tenant
  /\ proxies[dispatched.proxy].database # dispatched.database

\* C11: a step that gives a live Client a new tenant (set_tenant) changes the
\* tenant field of that Client to the value given and nothing else: its
\* database, every other Client (also one sharing its System), the registry
\* and the Systems stay as they are; and likewise for set_database.
C11_TenantAndDatabaseArePrivate ==
  [][ \A p \in Proxies :
        ( Live(p) /\ proxies'[p] # proxies[p] )
        => /\ \A q \in Proxies : q # p => proxies'[q] = proxies[q]
           /\ registry' = registry /\ systems' = systems
           /\ proxies'[p].tenantArg # proxies[p].tenantArg
                => /\ proxies'[p] = [proxies[p] EXCEPT
                                       !.tenant = proxies'[p].tenantArg,
                                       !.tenantArg = proxies'[p].tenantArg]
                   /\ proxies'[p].database = proxies[p].database
           /\ proxies'[p].databaseArg # proxies[p].databaseArg
                => /\ proxies'[p] = [proxies[p] EXCEPT
                                       !.database = proxies'[p].databaseArg,
                                       !.databaseArg = proxies'[p].databaseArg]
                   /\ proxies'[p].tenant = proxies[p].tenant ]_vars

\* Two Clients share one System; the later one has forwarded a call and has
\* then been set to another tenant and another database, while the earlier
\* one still has the pair of that call.
C11_Witness ==
  /\ dispatched.op \in ScopedOps
  /\ \E q \in Proxies :
       /\ q < dispatched.proxy /\ Live(q)
       /\ proxies[q]._server = proxies[dispatched.proxy]._server
       /\ proxies[q].tenant = dispatched.tenant
       /\ proxies[q].database = dispatched.database
       /\ proxies[dispatched.proxy].tenant # dispatched.tenant
       /\ proxies[dispatched.proxy].database # dispatched.database

\* The identifier has been resolved for the object p.
Resolved(p) ==
  /\ proxies[p].pc \in Finished
  /\ proxies[p].error.type # "ValueError" \/ proxies[p].error = SettingsConflict

\* C12: the identifier a construction resolves is a function of its settings
\* alone: the persist directory for the embedded kind with persistence, the
\* literal "ephemeral" for the embedded kind without it whatever the other
\* options, host ":" port for the remote kind ("h:8000" for host h and port
\* 8000, "/tmp/x" for the directory /tmp/x); it is the same whatever the
\* registry held, and resolving it leaves the registry as it was.
C12_IdentifierIsAFunctionOfSettings ==
  [][ \A p \in Proxies :
        LET s == proxies'[p].settings
            id == proxies'[p]._identifier
        IN
          /\ (Constructed(p) /\ proxies'[p].ret = NoSystem
                /\ proxies'[p].error.type = "ValueError")
               => registry' = registry
          /\ (proxies'[p].pc \in Finished
                /\ (proxies'[p].error.type # "ValueError"
                      \/ proxies'[p].error = SettingsConflict))
               => /\ s.chroma_api_impl = "chromadb.api.segment.SegmentAPI"
                       => /\ s.is_persistent => id = s.persist_directory
                          /\ ~ s.is_persistent => id = "ephemeral"
                          /\ s.persist_directory = "/tmp/x" /\ s.is_persistent
                               => id = "/tmp/x"
                  /\ s.chroma_api_impl = "chromadb.api.fastapi.FastAPI"
                       => /\ s.chroma_server_host = "h"
                               /\ s.chroma_server_http_port = 8000
                               => id = "h:8000"
                          /\ Len(id) = Len(s.chroma_server_host) + 1
                                         + Len(ToString(s.chroma_server_http_port))
                  /\ \A q \in Proxies :
                       (Resolved(q) /\ proxies[q].settings = s)
                         => proxies[q]._identifier = id ]_vars

\* A remote and a persistent embedded backend have been resolved, on
\* different states of the registry.
C12_Witness ==
  \E p, q \in Proxies :
    /\ Live(p) /\ Live(q)
    /\ proxies[p].epoch # proxies[q].epoch
    /\ proxies[p].settings.chroma_api_impl = "chromadb.api.fastapi.FastAPI"
    /\ proxies[p]._identifier = "h:8000"
    /\ proxies[q].settings.is_persistent
    /\ proxies[q]._identifier = "/tmp/x"

\* The two errors of the resolver.
BackendKindUnset ==
  ValueError("Chroma API implementation must be set in settings")
BackendKindUnsupported(api_impl) ==
  ValueError("Unsupported Chroma API implementation " \o api_impl)
RecognizedKinds ==
  {"chromadb.api.segment.SegmentAPI", "chromadb.api.fastapi.FastAPI"}

\* C13: a construction (Client or AdminClient) whose settings leave the
\* backend kind unset fails with the error for a missing kind, one whose
\* settings name an unrecognized kind fails with the other, different error
\* for an unsupported kind; either way the object obtains no server, the
\* registry maps what it mapped before and no System is built or started.
C13_ResolutionErrorsLeaveRegistryAlone ==
  [][ \A p \in Proxies :
        Constructed(p) =>
          LET impl == proxies'[p].settings.chroma_api_impl IN
            /\ impl = "None"
                 => /\ proxies'[p].pc = "failed"
                    /\ proxies'[p].error = BackendKindUnset
            /\ impl \notin RecognizedKinds \cup {"None"}
                 => /\ proxies'[p].pc = "failed"
                    /\ proxies'[p].error = BackendKindUnsupported(impl)
                    /\ proxies'[p].error # BackendKindUnset
            /\ impl \notin RecognizedKinds
                 => /\ registry' = registry
                    /\ systems' = systems
                    /\ proxies'[p]._server = NoSystem
                    /\ proxies'[p].ret = NoSystem ]_vars

\* Both failures have happened, one for a Client and one for an AdminClient.
C13_Witness ==
  \E p, q \in Proxies :
    /\ proxies[p].pc = "failed" /\ proxies[p].error = BackendKindUnset
    /\ proxies[q].pc = "failed"
    /\ proxies[q].error = BackendKindUnsupported("chromadb.api.local.LocalAPI")
    /\ proxies[p].kind # proxies[q].kind

\* The calls that take an embedding function.
EmbeddingOps == {"create_collection", "get_collection", "get_or_create_collection"}

Started(sys) ==
  /\ systems[sys].telemetry
  /\ systems[sys].server
  /\ systems[sys].starts >= 1

\* C15: in every state, under every interleaving of the threads, a System the
\* registry maps an identifier to has its Telemetry and its ServerAPI and has
\* run its start hooks, and so has every System a caller has read from the
\* registry at line 51 or been returned at line 59.
C15_RegisteredSystemsHaveStarted ==
  /\ \A id \in Identifiers : registry[id] # NoSystem => Started(registry[id])
  /\ \A p \in Proxies :
       /\ proxies[p].previous_system # NoSystem => Started(proxies[p].previous_system)
       /\ proxies[p].ret # NoSystem => Started(proxies[p].ret)

\* The Clients that were constructed successfully with the Telemetry of sys.
StartedClientsOf(sys) ==
  { p \in Proxies : Live(p) /\ IsClient(p) /\ proxies[p].telemetry_client = sys }

\* C16: the client-start events a System's Telemetry has captured are one for
\* each successfully constructed Client that obtained that System from the
\* registry, and no more: a successful Client construction captures through
\* the Telemetry of the System get-or-create returned to it, a construction
\* that failed in identifier resolution or on a settings conflict has reached
\* no Telemetry, and neither has any AdminClient.
C16_OneStartEventPerClient ==
  /\ \A sys \in 1..Len(systems) :
       systems[sys].captured = Cardinality(StartedClientsOf(sys))
  /\ \A p \in Proxies :
       /\ (Live(p) /\ IsClient(p))
            => /\ proxies[p].ret # NoSystem
               /\ proxies[p].telemetry_client = proxies[p].ret
       /\ (proxies[p].pc = "failed" \/ IsAdminClient(p))
            => proxies[p].telemetry_client = NoSystem

\* A Client and an AdminClient share a System that has captured one event.
C16_Witness ==
  \E p, q \in Proxies :
    /\ Live(p) /\ IsClient(p)
    /\ Live(q) /\ IsAdminClient(q)
    /\ proxies[p].ret = proxies[q].ret
    /\ systems[proxies[p].ret].captured = 1

\* The operations keyed by a collection id.
IdKeyedOps ==
  {"_modify", "_add", "_update", "_upsert", "_count", "_peek", "_get",
   "_delete", "_query"}

DataPlaneOps == ScopedOps \cup IdKeyedOps

\* C17 as stated: every data-plane call a Client forwards, the calls keyed by
\* a collection id included, reaches the ServerAPI with the tenant and the
\* database the Client has at the time of the call.
C17_EveryDataPlaneCallCarriesPair ==
  [][ (dispatched' # dispatched /\ dispatched'.op \in DataPlaneOps)
        => /\ dispatched'.tenant = proxies[dispatched'.proxy].tenant
           /\ dispatched'.database = proxies[dispatched'.proxy].database ]_vars

\* C17 amended: a call of list_collections, create_collection, get_collection,
\* get_or_create_collection or delete_collection reaches the ServerAPI with
\* the tenant and the database its Client has at the time of the call; a call
\* keyed by a collection id (_modify, _add, _update, _upsert, _count, _peek,
\* _get, _delete, _query) reaches the ServerAPI of its Client with neither.
C17_ScopedCallsCarryPair ==
  [][ dispatched' # dispatched
        => /\ dispatched'.op \in ScopedOps
                => /\ dispatched'.tenant = proxies[dispatched'.proxy].tenant
                   /\ dispatched'.database = proxies[dispatched'.proxy].database
           /\ dispatched'.op \in IdKeyedOps
                => /\ dispatched'.tenant = NotPassed
                   /\ dispatched'.database = NotPassed
                   /\ dispatched'.server = proxies[dispatched'.proxy]._server ]_vars

\* A Client of tenant t1 and database d1 has made a call keyed by a
\* collection id.
C17_Witness ==
  /\ dispatched.op \in IdKeyedOps
  /\ proxies[dispatched.proxy].tenant = "t1"
  /\ proxies[dispatched.proxy].database = "d1"
  /\ dispatched.tenantArg = "t1"
  /\ dispatched.databaseArg = "d1"
  /\ dispatched.tenant = NotPassed
  /\ dispatched.database = NotPassed

\* C18: a construction that fails inside get-or-create on an identifier the
\* registry did not hold (System(), instance(Telemetry), instance(ServerAPI)
\* or start() raises) leaves the registry as it was before the attempt, and
\* a construction that succeeds holds a System whose start hooks have run.
C18_FailedFirstConstructionLeavesRegistry ==
  [][ \A p \in Proxies :
        /\ ( /\ Constructed(p)
             /\ proxies'[p].pc = "failed"
             /\ proxies'[p].error = BackendError
             /\ proxies'[p].ret = NoSystem
             /\ registry[proxies'[p]._identifier] = NoSystem )
           => registry' = registry
        /\ ( Constructed(p) /\ proxies'[p].pc = "live" )
           => systems'[proxies'[p].ret].starts >= 1 ]_vars

\* C19: for every live Client or AdminClient whose identifier the registry
\* holds, the System its _system property resolves to is the one whose
\* ServerAPI it cached as _server at construction, and the settings of that
\* System equal the settings the object was constructed with.
C19_CachedServerMatchesSystem ==
  \A p \in Proxies :
    ( Live(p) /\ _system(St, p) # NoSystem )
    => /\ proxies[p]._server = _system(St, p)
       /\ systems[_system(St, p)].settings = proxies[p].settings

\* C20: a construction with valid settings that a clear_system_cache() of
\* another thread interleaves with, at whatever point, does not fail on a
\* missing registry entry, and once it has returned, the object holds the
\* ServerAPI of a System whose start hooks have run.
C20_ConstructionSurvivesClear ==
  \A p \in Proxies :
    /\ proxies[p].error # KeyError
    /\ Live(p) => ( proxies[p]._server # NoSystem
                    /\ systems[proxies[p]._server].starts >= 1 )

====
